---- MODULE Spec2Model ----
(***************************************************************************)
(* Model of src/PriorityQueue/priority_queue.py: the two bucket priority   *)
(* queues SimplePriorityQueue (a list of 11 lists) and                     *)
(* SimplerPriorityQueue (a dict of lists), the calls a client can make on  *)
(* them, and the module-level demo script that fills and drains a queue;   *)
(* and of four threading programs of src/HelloWorld: the two-lock sentinel *)
(* pipeline (threading_7), the Queue and Event pipeline (threading_8 and   *)
(* threading_9), the semaphore Barrier (threading_12) and the semaphore-   *)
(* limited ThreadPool (threading_10).  Each specification runs one program *)
(* and holds the state of the others fixed.                                *)
(*                                                                         *)
(* Python values are modelled as follows.                                  *)
(*   key        <<type, value>>: <<"int", 7>>, <<"bool", 1>> (True),       *)
(*              <<"str", 7>> ("7"), <<"float", 2>> (2.0)                   *)
(*   None       <<"None">>                                                 *)
(*   (a, b)     <<a, b>>                                                   *)
(*   list       a sequence, Python index i at position i + 1               *)
(*   argument   [kind |-> "dict" | "tuple", entries |-> <<(key, value)>>]  *)
(*              a dict with its entries in insertion order, or a non-dict  *)
(***************************************************************************)
EXTENDS Integers, Sequences, FiniteSets, TLC

VARIABLES
  impl,    \* which class(es) the client drives: "Simple", "Simpler", "Both"
  sq,      \* SimplePriorityQueue.q  : list of 11 lists of (priority, command)
  dq,      \* SimplerPriorityQueue.q : dict priority -> list of command
  obsS,    \* what the client of the SimplePriorityQueue has observed
  obsD,    \* what the client of the SimplerPriorityQueue has observed
  pc,      \* position of the demo script: "idle", "adding", "draining", "done"
  data,    \* the items the demo script still has to add
  iter,    \* how often the body of the demo script's drain loop has run
  sync,    \* how client threads call the queue: "none", or "lock" around each call
  lock,    \* the thread holding the callers' lock, 0 when it is free
  thr,     \* the client threads: where each is in its call, and its locals
  pipeline,  \* threading_7_sentinel: the Pipeline (message and its two locks)
  prod,      \* threading_7_sentinel: the producer thread (position and locals)
  cons,      \* threading_7_sentinel: the consumer thread (position and locals)
  log,       \* threading_7_sentinel: the values set, got and stored so far
  smain,     \* threading_7_sentinel: position of main, "off" when not run
  queue,     \* threading_8_queue: the messages in the Pipeline queue, oldest first
  event,     \* threading_8_queue: whether the exit Event is set
  qprod,     \* threading_8_queue: the producer thread (position and locals)
  qcons,     \* threading_8_queue: the consumer thread (position and locals)
  qmain,     \* threading_8_queue: position of main, "off" when not run
  barrier,   \* threading_12_barrier: the Barrier (n, count, its two semaphores)
  skater,    \* threading_12_barrier: the position of each skate thread
  opened,    \* threading_12_barrier: the threads that ran the release under 'if'
  bmain,     \* threading_12_barrier: position of main, "off" when not run
  pool,      \* threading_10_semaphore: the ThreadPool (active names, its Lock)
  semaphore, \* threading_10_semaphore: the counter of the Semaphore s
  worker,    \* threading_10_semaphore: the position of each thread running f
  pmain      \* threading_10_semaphore: position of main, "off" when not run

threadVars == <<sync, lock, thr>>

sentinelVars == <<pipeline, prod, cons, log, smain>>

queueVars == <<queue, event, qprod, qcons, qmain>>

barrierVars == <<barrier, skater, opened, bmain>>

poolVars == <<pool, semaphore, worker, pmain>>

helloVars == <<sentinelVars, queueVars, barrierVars, poolVars>>

priorityQueueVars == <<impl, sq, dq, obsS, obsD, pc, data, iter, sync, lock, thr>>

\* what the sentinel program leaves alone
notSentinel == <<priorityQueueVars, queueVars, barrierVars, poolVars>>

\* what the queue program leaves alone
notQueue == <<priorityQueueVars, sentinelVars, barrierVars, poolVars>>

\* what the barrier program leaves alone
notBarrier == <<priorityQueueVars, sentinelVars, queueVars, poolVars>>

\* what the pool program leaves alone
notPool == <<priorityQueueVars, sentinelVars, queueVars, barrierVars>>

vars == <<priorityQueueVars, helloVars>>

----------------------------------------------------------------------------
(* Bounds of the model *)

MaxWorkers == 5       \* threads main starts on the pool (range(10) in the source)

MaxParties == 4       \* threads a Barrier is made for: Barrier(n), n <= MaxParties

MaxAdds == 3          \* add calls that return normally, per queue

(* Program constants *)

NumBuckets == 11      \* range(11) in __init__, pop and the range check

None == <<"None">>

Int_(v) == <<"int", v>>

----------------------------------------------------------------------------
(* The threading programs of src/HelloWorld as they are constructed.  Each *)
(* program has a main thread; "off" is the position of a main thread that  *)
(* is not run in the specification at hand.                                *)

BurstSize == 10       \* range(10) in threading_7_sentinel.producer

\* SENTINEL = object(): a value that is identical to nothing but itself
SENTINEL == <<"SENTINEL">>

\* random.randint(1, 101), cut to its two end points
Messages == {Int_(1), Int_(101)}

\* a Lock is TRUE when locked; __init__ acquires consumer_lock
PipelineInitOpen ==
  [message |-> Int_(0), producer_lock |-> FALSE, consumer_lock |-> FALSE]

PipelineInit ==
  [message |-> Int_(0), producer_lock |-> FALSE, consumer_lock |-> TRUE]

\* the producer thread before t_producer.start()
ProducerInit == [pc |-> "unstarted", index |-> 0, message |-> None]

\* the consumer thread before t_consumer.start(); local is the variable
\* message of get_message, message the variable of consumer
ConsumerInit == [pc |-> "unstarted", message |-> None, local |-> None]

LogInit == [set |-> <<>>, get |-> <<>>, stored |-> <<>>]

SentinelOff ==
  /\ pipeline = PipelineInit
  /\ prod = ProducerInit
  /\ cons = ConsumerInit
  /\ log = LogInit
  /\ smain = "off"

MaxSize == 10         \* queue.Queue.__init__(self, maxsize=10)

\* a thread of the queue program before its start()
WorkerInit == [pc |-> "unstarted", message |-> None]

QueueOff ==
  /\ queue = <<>>
  /\ event = FALSE
  /\ qprod = WorkerInit
  /\ qcons = WorkerInit
  /\ qmain = "off"

\* the threads main can start on one Barrier
Skaters == 1..MaxParties

\* Barrier(n) with its lock semaphore free
BarrierInitOpen(n) == [n |-> n, count |-> 0, lock |-> 1, barrier |-> 1]

\* Barrier(n): a Semaphore is its counter
BarrierInit(n) == [n |-> n, count |-> 0, lock |-> 1, barrier |-> 0]

NoSkaters == [t \in Skaters |-> "unstarted"]

BarrierOff ==
  /\ barrier = BarrierInit(1)
  /\ skater = NoSkaters
  /\ opened = {}
  /\ bmain = "off"

MAX_THREADS == 3      \* main of threading_10_semaphore: MAX_THREADS = 3

\* the threads main starts on the pool, thread_1 .. thread_MaxWorkers
Workers == 1..MaxWorkers

\* ThreadPool(): a Lock is FALSE when free
ThreadPoolInit == [active |-> <<>>, lock |-> FALSE]

NoWorkers == [t \in Workers |-> "unstarted"]

PoolOff ==
  /\ pool = ThreadPoolInit
  /\ semaphore = MAX_THREADS
  /\ worker = NoWorkers
  /\ pmain = "off"

HelloOff ==
  /\ SentinelOff
  /\ QueueOff
  /\ BarrierOff
  /\ PoolOff

----------------------------------------------------------------------------
(* Inputs a client can pass to add *)

Commands == {"one", "three"}

IntPriorities == {-12, -1, 0, 2, 10, 11}

Keys == {Int_(v) : v \in IntPriorities} \cup {<<"bool", 1>>, <<"str", 7>>, <<"float", 2>>}

Dict(entries) == [kind |-> "dict", entries |-> entries]

OneEntryDicts ==
  {Dict(<<<<Int_(v), c>>>>) : v \in IntPriorities \cap 0..(NumBuckets - 1), c \in Commands}
    \cup {Dict(<<<<k, "one">>>>) : k \in Keys}

MalformedItems ==
  { Dict(<<>>),
    Dict(<<<<Int_(0), "one">>, <<Int_(2), "three">>>>),
    [kind |-> "tuple", entries |-> <<<<Int_(0), "one">>>>] }

Items == OneEntryDicts \cup MalformedItems

NoItem == [kind |-> "none", entries |-> <<>>]

----------------------------------------------------------------------------
(* Python built-ins used by the two classes *)

\* a slip of the insertion below: the item goes to the back of the list
InsertBack(l, x) == l \o <<x>>

\* list.insert(0, x)
Insert0(l, x) == <<x>> \o l

\* list.pop(): the removed last element, and the list that remains
PopValue(l) == l[Len(l)]

\* a slip of the removal below: the first element is the one removed
PopRestFront(l) == SubSeq(l, 2, Len(l))

PopRest(l) == SubSeq(l, 1, Len(l) - 1)

\* bool is a subclass of int and indexes a list like the int it equals
IsIndex(k) == k[1] \in {"int", "bool"}

\* a slip of the indexing below: the priority is taken as 1-based
PositionOneBased(v, n) ==
  LET w == v - 1
  IN  IF w >= 0 /\ w < n THEN w
      ELSE IF w < 0 /\ w >= -n THEN n + w
      ELSE -1

\* list[index] of a list of length n: the 0-based position, -1 for IndexError
Position(v, n) ==
  IF v >= 0 /\ v < n THEN v
  ELSE IF v < 0 /\ v >= -n THEN n + v
  ELSE -1

\* a slip of the check below: only an empty argument is refused
MalformedEmptyOnly(item) == item.kind # "dict" \/ Len(item.entries) = 0

\* type(item) is not dict or len(item) != 1
Malformed(item) == item.kind # "dict" \/ Len(item.entries) # 1

----------------------------------------------------------------------------
(* SimplePriorityQueue *)

SimpleInit == [i \in 0..(NumBuckets - 1) |-> <<>>]

\* add: the new self.q, how the call ended, and what it printed
SimpleAdd(q, item) ==
  IF Malformed(item)
  THEN [q |-> q, out |-> "TypeError", printed |-> "none"]
  ELSE LET priority == item.entries[1][1]
           command  == item.entries[1][2]
       IN  IF ~IsIndex(priority)
           THEN [q |-> q, out |-> "TypeError", printed |-> "none"]
           ELSE LET i == Position(priority[2], NumBuckets)
                IN  IF i = -1
                    THEN [q |-> q, out |-> "return", printed |-> "bounds"]
                    ELSE [q |-> [q EXCEPT ![i] = Insert0(@, <<priority, command>>)],
                          out |-> "return", printed |-> "none"]

\* a slip of the loop below: the buckets are visited from 10 down to i
SimpleScanDown(q, i) ==
  LET full == {j \in i..(NumBuckets - 1) : q[j] # <<>>}
  IN  IF full = {} THEN NumBuckets
      ELSE CHOOSE j \in full : \A k \in full : k <= j

\* the loop of pop from bucket i on: the bucket popped from, or NumBuckets
RECURSIVE SimpleScan(_, _)
SimpleScan(q, i) ==
  IF i >= NumBuckets THEN NumBuckets
  ELSE IF q[i] = <<>> THEN SimpleScan(q, i + 1)
  ELSE i

SimplePop(q) ==
  LET i == SimpleScan(q, 0)
  IN  IF i = NumBuckets
      THEN [q |-> q, ret |-> None]
      ELSE [q |-> [q EXCEPT ![i] = PopRest(@)], ret |-> PopValue(q[i])]

----------------------------------------------------------------------------
(* SimplerPriorityQueue *)

SimplerInit == <<>>

\* a slip of the check below: isinstance(priority, int), which a bool passes
BadPriorityIsinstance(priority) ==
  ~(priority[1] \in {"int", "bool"}) \/ ~(priority[2] >= 0 /\ priority[2] < NumBuckets)

\* type(priority) is not int or priority not in range(11)
BadPriority(priority) ==
  priority[1] # "int" \/ ~(priority[2] >= 0 /\ priority[2] < NumBuckets)

\* a slip of the update below: the bucket is always created anew
SimplerStoreReplace(q, priority, command) ==
  (priority :> <<command>>) @@ q

\* a slip of the update below: the command is appended at the back
SimplerStoreAppend(q, priority, command) ==
  IF priority \in DOMAIN q
  THEN [q EXCEPT ![priority] = Append(@, command)]
  ELSE (priority :> <<command>>) @@ q

\* the bucket update of add: insert at the front, or create the bucket
SimplerStore(q, priority, command) ==
  IF priority \in DOMAIN q
  THEN [q EXCEPT ![priority] = Insert0(@, command)]
  ELSE (priority :> <<command>>) @@ q

SimplerAdd(q, item) ==
  IF Malformed(item)
  THEN [q |-> q, out |-> "TypeError", printed |-> "none"]
  ELSE LET priority == item.entries[1][1]
           command  == item.entries[1][2]
       IN  IF BadPriority(priority)
           THEN [q |-> q, out |-> "TypeError", printed |-> "none"]
           ELSE [q |-> SimplerStore(q, priority, command),
                 out |-> "return", printed |-> "none"]

\* a slip of the sort below: the keys in descending order
RECURSIVE SortedReversed(_)
SortedReversed(keys) ==
  IF keys = {} THEN <<>>
  ELSE LET k == CHOOSE x \in keys : \A y \in keys : x[2] >= y[2]
       IN  <<k>> \o SortedReversed(keys \ {k})

\* sorted(keys): the keys in ascending order of their value
RECURSIVE Sorted(_)
Sorted(keys) ==
  IF keys = {} THEN <<>>
  ELSE LET k == CHOOSE x \in keys : \A y \in keys : x[2] <= y[2]
       IN  <<k>> \o Sorted(keys \ {k})

\* the loop of pop from position n of the sorted keys on: the position of
\* the bucket popped from, or 0
RECURSIVE SimplerScan(_, _, _)
SimplerScan(q, keys, n) ==
  IF n > Len(keys) THEN 0
  ELSE IF q[keys[n]] = <<>> THEN SimplerScan(q, keys, n + 1)
  ELSE n

\* a slip of pop below: the buckets found empty are deleted from the dict
SimplerPopPruning(q) ==
  LET keys == Sorted(DOMAIN q)
      n    == SimplerScan(q, keys, 1)
      kept == {k \in DOMAIN q : q[k] # <<>>}
  IN  IF n = 0
      THEN [q |-> [k \in kept |-> q[k]], ret |-> None]
      ELSE [q |-> [k \in kept |-> IF k = keys[n] THEN PopRest(q[k]) ELSE q[k]],
            ret |-> <<keys[n], PopValue(q[keys[n]])>>]

SimplerPop(q) ==
  LET keys == Sorted(DOMAIN q)
      n    == SimplerScan(q, keys, 1)
  IN  IF n = 0
      THEN [q |-> q, ret |-> None]
      ELSE [q |-> [q EXCEPT ![keys[n]] = PopRest(@)],
            ret |-> <<keys[n], PopValue(q[keys[n]])>>]

----------------------------------------------------------------------------
(* What a client observes of one queue: the entries of the add calls that  *)
(* returned normally, the items pop returned, the items returned by the    *)
(* pops since the last add call, and the last call with its outcome.       *)

ObsInit ==
  [added |-> <<>>, popped |-> <<>>, run |-> <<>>,
   last |-> [op |-> "init", arg |-> NoItem, out |-> "return",
             printed |-> "none", ret |-> None]]

ObsAdd(o, item, r) ==
  [added  |-> IF r.out = "return" THEN Append(o.added, item.entries[1]) ELSE o.added,
   popped |-> o.popped,
   run    |-> <<>>,
   last   |-> [op |-> "add", arg |-> item, out |-> r.out,
               printed |-> r.printed, ret |-> None]]

ObsPop(o, r) ==
  [added  |-> o.added,
   popped |-> IF r.ret = None THEN o.popped ELSE Append(o.popped, r.ret),
   run    |-> IF r.ret = None THEN o.run ELSE Append(o.run, r.ret),
   last   |-> [op |-> "pop", arg |-> NoItem, out |-> "return",
               printed |-> "none", ret |-> r.ret]]

UsesSimple == impl \in {"Simple", "Both"}
UsesSimpler == impl \in {"Simpler", "Both"}

\* PQ.add(item) on the queue(s) the client drives
CallAdd(item) ==
  /\ IF UsesSimple
     THEN /\ sq' = SimpleAdd(sq, item).q
          /\ obsS' = ObsAdd(obsS, item, SimpleAdd(sq, item))
     ELSE UNCHANGED <<sq, obsS>>
  /\ IF UsesSimpler
     THEN /\ dq' = SimplerAdd(dq, item).q
          /\ obsD' = ObsAdd(obsD, item, SimplerAdd(dq, item))
     ELSE UNCHANGED <<dq, obsD>>

\* PQ.pop() on the queue(s) the client drives
CallPop ==
  /\ IF UsesSimple
     THEN /\ sq' = SimplePop(sq).q
          /\ obsS' = ObsPop(obsS, SimplePop(sq))
     ELSE UNCHANGED <<sq, obsS>>
  /\ IF UsesSimpler
     THEN /\ dq' = SimplerPop(dq).q
          /\ obsD' = ObsPop(obsD, SimplerPop(dq))
     ELSE UNCHANGED <<dq, obsD>>

----------------------------------------------------------------------------
(* A client making any sequence of add and pop calls on fresh queues *)

\* a client thread that is not inside a call
IdleThread ==
  [pc |-> "idle", calls |-> 0, item |-> NoItem, present |-> FALSE,
   keys |-> <<>>, n |-> 0]

Threads == {1, 2, 3}

NoThreads == [t \in Threads |-> IdleThread]

Init ==
  /\ impl = "Both"
  /\ sq = SimpleInit
  /\ dq = SimplerInit
  /\ obsS = ObsInit
  /\ obsD = ObsInit
  /\ pc = "idle"
  /\ data = <<>>
  /\ iter = 0
  /\ sync = "none"
  /\ lock = 0
  /\ thr = NoThreads
  /\ HelloOff

\* the priority queues when the program at hand does not use them
PriorityQueueOff ==
  /\ impl = "Both"
  /\ sq = SimpleInit
  /\ dq = SimplerInit
  /\ obsS = ObsInit
  /\ obsD = ObsInit
  /\ pc = "off"
  /\ data = <<>>
  /\ iter = 0
  /\ sync = "none"
  /\ lock = 0
  /\ thr = NoThreads

Add(item) ==
  /\ pc = "idle"
  /\ Len(obsS.added) < MaxAdds
  /\ Len(obsD.added) < MaxAdds
  /\ CallAdd(item)
  /\ UNCHANGED <<impl, pc, data, iter, threadVars, helloVars>>

Pop ==
  /\ pc = "idle"
  /\ CallPop
  /\ UNCHANGED <<impl, pc, data, iter, threadVars, helloVars>>

Next ==
  \/ \E item \in Items : Add(item)
  \/ Pop

Spec == Init /\ [][Next]_vars

----------------------------------------------------------------------------
(* The module-level demo script: PQ is one of the two classes, the items   *)
(* of the generated data are added in order, then the queue is drained by  *)
(*     item = PQ.pop()                                                     *)
(*     while item: print(item); item = PQ.pop()                            *)
(* The generated data range over the subsequences of the recorded run.     *)

RecordedRun ==
  << <<Int_(7), "one">>, <<Int_(10), "three">>, <<Int_(0), "three">>,
     <<Int_(0), "five">>, <<Int_(7), "three">>, <<Int_(9), "one">>,
     <<Int_(2), "three">> >>

\* the entries of run whose position is in keep, as one-entry dicts
RECURSIVE Select(_, _, _)
Select(run, keep, n) ==
  IF n > Len(run) THEN <<>>
  ELSE (IF n \in keep THEN <<Dict(<<run[n]>>)>> ELSE <<>>) \o Select(run, keep, n + 1)

DemoData == {Select(RecordedRun, keep, 1) : keep \in SUBSET (1..Len(RecordedRun))}

\* a slip of the test below: 'while item[0]', and priority 0 is false
TruthyPriority(item) == item # None /\ item[1][2] # 0

\* the truth value of what pop returned: None and () are false
Truthy(item) == item # None /\ item # <<>>

\* the item the script holds: the result of its last pop
ScriptItem == IF impl = "Simple" THEN obsS.last.ret ELSE obsD.last.ret

ScriptRaised == IF impl = "Simple" THEN obsS.last.out # "return" ELSE obsD.last.out # "return"

DemoInit ==
  /\ impl \in {"Simple", "Simpler"}
  /\ sq = SimpleInit
  /\ dq = SimplerInit
  /\ obsS = ObsInit
  /\ obsD = ObsInit
  /\ pc = "adding"
  /\ data \in DemoData
  /\ iter = 0
  /\ sync = "none"
  /\ lock = 0
  /\ thr = NoThreads
  /\ HelloOff

\* for x in ...: PQ.add(x)
DemoAdd ==
  /\ pc = "adding"
  /\ data # <<>>
  /\ UNCHANGED <<impl, iter, threadVars, helloVars>>
  /\ CallAdd(Head(data))
  /\ data' = Tail(data)
  /\ pc' = IF ScriptRaised' THEN "raised" ELSE "adding"

\* item = PQ.pop() before the loop
DemoFirstPop ==
  /\ pc = "adding"
  /\ data = <<>>
  /\ CallPop
  /\ pc' = "draining"
  /\ UNCHANGED <<impl, data, iter, threadVars, helloVars>>

\* while item: ...; item = PQ.pop()
DemoLoopPop ==
  /\ pc = "draining"
  /\ Truthy(ScriptItem)
  /\ CallPop
  /\ iter' = iter + 1
  /\ UNCHANGED <<impl, pc, data, threadVars, helloVars>>

\* while item: leaves the loop on a false item
DemoExit ==
  /\ pc = "draining"
  /\ ~Truthy(ScriptItem)
  /\ pc' = "done"
  /\ UNCHANGED <<impl, sq, dq, obsS, obsD, data, iter, threadVars, helloVars>>

DemoNext == DemoAdd \/ DemoFirstPop \/ DemoLoopPop \/ DemoExit

DemoSpec == DemoInit /\ [][DemoNext]_vars

\* the script is sequential code: it takes its next step whenever it has one
DemoFairSpec == DemoSpec /\ WF_vars(DemoNext)

----------------------------------------------------------------------------
(* Threads calling one SimplerPriorityQueue.  A thread switch can fall     *)
(* between any two statements of add and pop, so a call is a sequence of   *)
(* steps:                                                                  *)
(*   add   checks of the argument; test 'priority in self.q'; then the     *)
(*         insert into the bucket or the assignment of a new bucket        *)
(*   pop   keys = sorted(self.q.keys()); per key, the test of its bucket;  *)
(*         then register.pop()                                             *)
(* With sync = "lock" every call is made holding the one lock of the       *)
(* callers, taken before the call and released when it returns or raises.  *)
(* Without the lock only the two adding threads run.                       *)

MaxCalls == 2         \* calls each thread makes

Producers == {1, 2}
Consumers == {3}

RaceItems ==
  { Dict(<<<<Int_(0), "one">>>>), Dict(<<<<Int_(0), "three">>>>),
    Dict(<<<<Int_(2), "one">>>>), Dict(<<<<Int_(11), "one">>>>) }

\* a slip of the update below: the bucket is assigned anew in both branches
SimplerStoreStepReplace(q, present, priority, command) ==
  (priority :> <<command>>) @@ q

\* the branch of add taken on the outcome of its test 'priority in self.q'
SimplerStoreStep(q, present, priority, command) ==
  IF present
  THEN [q EXCEPT ![priority] = Insert0(@, command)]
  ELSE (priority :> <<command>>) @@ q

CanEnter == sync = "lock" => lock = 0

Returned(t) == [IdleThread EXCEPT !.calls = thr[t].calls + 1]

RaceInit ==
  /\ impl = "Simpler"
  /\ sq = SimpleInit
  /\ dq = SimplerInit
  /\ obsS = ObsInit
  /\ obsD = ObsInit
  /\ pc = "threads"
  /\ data = <<>>
  /\ iter = 0
  /\ sync \in {"none", "lock"}
  /\ lock = 0
  /\ thr = NoThreads
  /\ HelloOff

\* add(item) is called: the checks of the argument
BeginAdd(t, item) ==
  /\ thr[t].pc = "idle"
  /\ thr[t].calls < MaxCalls
  /\ CanEnter
  /\ IF Malformed(item) \/ BadPriority(item.entries[1][1])
     THEN /\ obsD' = ObsAdd(obsD, item, [out |-> "TypeError", printed |-> "none"])
          /\ thr' = [thr EXCEPT ![t] = Returned(t)]
          /\ UNCHANGED lock
     ELSE /\ thr' = [thr EXCEPT ![t] = [@ EXCEPT !.pc = "test", !.item = item]]
          /\ lock' = IF sync = "lock" THEN t ELSE lock
          /\ UNCHANGED obsD
  /\ UNCHANGED <<impl, sq, dq, obsS, pc, data, iter, sync, helloVars>>

\* if priority in self.q
AddTest(t) ==
  /\ thr[t].pc = "test"
  /\ thr' = [thr EXCEPT ![t] = [@ EXCEPT !.pc = "store",
                                   !.present = thr[t].item.entries[1][1] \in DOMAIN dq]]
  /\ UNCHANGED <<impl, sq, dq, obsS, obsD, pc, data, iter, sync,
                 lock, helloVars>>

\* self.q[priority].insert(0, command), or self.q[priority] = [command]
AddStore(t) ==
  /\ thr[t].pc = "store"
  /\ dq' = SimplerStoreStep(dq, thr[t].present, thr[t].item.entries[1][1],
                            thr[t].item.entries[1][2])
  /\ obsD' = ObsAdd(obsD, thr[t].item, [out |-> "return", printed |-> "none"])
  /\ thr' = [thr EXCEPT ![t] = Returned(t)]
  /\ lock' = 0
  /\ UNCHANGED <<impl, sq, obsS, pc, data, iter, sync, helloVars>>

\* pop() is called: sorted(self.q.keys())
BeginPop(t) ==
  /\ thr[t].pc = "idle"
  /\ thr[t].calls < MaxCalls
  /\ sync = "lock"
  /\ CanEnter
  /\ thr' = [thr EXCEPT ![t] = [@ EXCEPT !.pc = "scan", !.keys = Sorted(DOMAIN dq),
                                   !.n = 1]]
  /\ lock' = t
  /\ UNCHANGED <<impl, sq, dq, obsS, obsD, pc, data, iter, sync, helloVars>>

\* one turn of the loop up to 'continue', or the return of None after it
PopScan(t) ==
  /\ thr[t].pc = "scan"
  /\ IF thr[t].n > Len(thr[t].keys)
     THEN /\ obsD' = ObsPop(obsD, [ret |-> None])
          /\ thr' = [thr EXCEPT ![t] = Returned(t)]
          /\ lock' = 0
     ELSE /\ thr' = [thr EXCEPT ![t] =
                       IF dq[thr[t].keys[thr[t].n]] = <<>>
                       THEN [@ EXCEPT !.n = @ + 1]
                       ELSE [@ EXCEPT !.pc = "take"]]
          /\ UNCHANGED <<obsD, lock>>
  /\ UNCHANGED <<impl, sq, dq, obsS, pc, data, iter, sync, helloVars>>

\* item = (i, register.pop()) and the return of item
PopTake(t) ==
  /\ thr[t].pc = "take"
  /\ LET i == thr[t].keys[thr[t].n]
     IN  /\ dq' = [dq EXCEPT ![i] = PopRest(@)]
         /\ obsD' = ObsPop(obsD, [ret |-> <<i, PopValue(dq[i])>>])
  /\ thr' = [thr EXCEPT ![t] = Returned(t)]
  /\ lock' = 0
  /\ UNCHANGED <<impl, sq, obsS, pc, data, iter, sync, helloVars>>

RaceNext ==
  \/ \E t \in Producers : \E item \in RaceItems : BeginAdd(t, item)
  \/ \E t \in Producers : AddTest(t)
  \/ \E t \in Producers : AddStore(t)
  \/ \E t \in Consumers : BeginPop(t)
  \/ \E t \in Consumers : PopScan(t)
  \/ \E t \in Consumers : PopTake(t)

RaceSpec == RaceInit /\ [][RaceNext]_vars

----------------------------------------------------------------------------
(* Vocabulary of the properties *)

\* the numeric priority of a popped item (priority, command)
Prio(it) == it[1][2]

NonDecreasing(items) ==
  \A i \in 1..(Len(items) - 1) : Prio(items[i]) <= Prio(items[i + 1])

\* the total number of items in the buckets named by S
RECURSIVE SumLen(_, _)
SumLen(q, S) ==
  IF S = {} THEN 0
  ELSE LET k == CHOOSE x \in S : TRUE
       IN  Len(q[k]) + SumLen(q, S \ {k})

HeldS == SumLen(sq, DOMAIN sq)
HeldD == SumLen(dq, DOMAIN dq)

Count(s, e) == Cardinality({i \in 1..Len(s) : s[i] = e})

SameBag(a, b) ==
  /\ Len(a) = Len(b)
  /\ \A i \in 1..Len(a) : Count(a, a[i]) = Count(b, a[i])

IsPrefix(a, b) == Len(a) <= Len(b) /\ SubSeq(b, 1, Len(a)) = a

\* the entries of s whose priority key is in K, in order
AtKeys(s, K) == SelectSeq(s, LAMBDA e : e[1] \in K)

\* the last call made on the queue(s) in use, and its argument
CallOp == IF UsesSimple THEN obsS.last.op ELSE obsD.last.op
CallArg == IF UsesSimple THEN obsS.last.arg ELSE obsD.last.arg

\* the step is a call of add with this argument, or a call of pop
AddStep(item) ==
  /\ CallOp' = "add"
  /\ CallArg' = item
  /\ Add(item) \/ (DemoAdd /\ item = Head(data))

PopStep ==
  /\ CallOp' = "pop"
  /\ Pop \/ DemoFirstPop \/ DemoLoopPop

\* a one-entry dict whose priority is an int outside 0..10
OutOfRange(item) ==
  /\ item.kind = "dict"
  /\ Len(item.entries) = 1
  /\ item.entries[1][1][1] = "int"
  /\ ~(item.entries[1][1][2] \in 0..(NumBuckets - 1))

----------------------------------------------------------------------------
(* C1: when a fresh queue is filled by add calls and then drained by       *)
(* repeated pops, the priorities of the popped items are in non-decreasing *)
(* order, for both classes.  popped = run says that every pop so far came  *)
(* after the last add.                                                     *)

C1_DrainOrdered ==
  /\ (obsS.popped = obsS.run => NonDecreasing(obsS.run))
  /\ (obsD.popped = obsD.run => NonDecreasing(obsD.run))

(* C3: conservation.  The add calls that returned normally minus the pops  *)
(* that returned an item is the number of items in the buckets, and once   *)
(* the queue is drained the popped items are, as a multiset, the added     *)
(* ones.                                                                   *)

C3_Conservation ==
  /\ Len(obsS.added) - Len(obsS.popped) = HeldS
  /\ Len(obsD.added) - Len(obsD.popped) = HeldD
  /\ (HeldS = 0 => SameBag(obsS.added, obsS.popped))
  /\ (HeldD = 0 => SameBag(obsD.added, obsD.popped))

(* C4: range enforcement.  In both classes an add with priority -1 or 11   *)
(* raises to the caller and leaves every bucket as it was.                 *)

C4_RangeEnforced ==
  [][\A item \in Items :
       (AddStep(item) /\ OutOfRange(item)
          /\ item.entries[1][1][2] \in {-1, NumBuckets})
       => /\ UsesSimple => (obsS'.last.out # "return" /\ sq' = sq)
          /\ UsesSimpler => (obsD'.last.out # "return" /\ dq' = dq)]_vars

(* C5: in the array variant an add whose integer priority is above 10 or   *)
(* below 0 returns normally, prints the out-of-bounds warning and modifies *)
(* no bucket.                                                              *)

C5_SwallowedOutOfRange ==
  [][\A item \in Items :
       (AddStep(item) /\ OutOfRange(item) /\ UsesSimple)
       => /\ obsS'.last.out = "return"
          /\ obsS'.last.printed = "bounds"
          /\ sq' = sq]_vars

----------------------------------------------------------------------------
(* C2: FIFO within a level.  For every priority key, in both classes, the  *)
(* items popped with that key are, in order, the first of the items added  *)
(* with that key: an item is never popped before one added earlier at the  *)
(* same level, whatever calls at other levels happen in between.           *)

C2_FifoWithinLevel ==
  \A k \in Keys :
    /\ IsPrefix(AtKeys(obsS.popped, {k}), AtKeys(obsS.added, {k}))
    /\ IsPrefix(AtKeys(obsD.popped, {k}), AtKeys(obsD.added, {k}))

\* two different commands of level 0 were popped from both queues, the
\* second one added after the level had been drained to empty
C2_Witness ==
  /\ impl = "Both"
  /\ AtKeys(obsS.popped, {Int_(0)}) = <<<<Int_(0), "one">>, <<Int_(0), "three">>>>
  /\ AtKeys(obsD.popped, {Int_(0)}) = <<<<Int_(0), "one">>, <<Int_(0), "three">>>>
  /\ obsD.last.op = "pop"
  /\ Len(obsD.added) = 3
  /\ Len(obsD.popped) = 3
  /\ obsD.popped[1] = <<Int_(0), "one">>
  /\ obsD.popped[2] = <<Int_(2), "one">>

----------------------------------------------------------------------------
(* C6: pop returns and removes the oldest item of the lowest-numbered      *)
(* non-empty bucket, and returns None exactly when every bucket is empty.  *)
(* The oldest item of a bucket is the earliest added entry, among those    *)
(* with the keys held in the bucket, that no pop has returned yet.         *)

Min(S) == CHOOSE x \in S : \A y \in S : x <= y

RemovedOne(before, after, x) ==
  \E j \in 1..Len(before) :
    /\ before[j] = x
    /\ after = SubSeq(before, 1, j - 1) \o SubSeq(before, j + 1, Len(before))

Oldest(o, K) == AtKeys(o.added, K)[Len(AtKeys(o.popped, K)) + 1]

PopsLowestOldestS ==
  LET full == {i \in DOMAIN sq : sq[i] # <<>>}
  IN  IF full = {}
      THEN obsS'.last.ret = None /\ sq' = sq
      ELSE LET b == Min(full)
               K == {sq[b][j][1] : j \in 1..Len(sq[b])}
           IN  /\ obsS'.last.ret # None
               /\ obsS'.last.ret = Oldest(obsS, K)
               /\ RemovedOne(sq[b], sq'[b], Oldest(obsS, K))
               /\ \A j \in DOMAIN sq \ {b} : sq'[j] = sq[j]

PopsLowestOldestD ==
  LET full == {k \in DOMAIN dq : dq[k] # <<>>}
  IN  IF full = {}
      THEN obsD'.last.ret = None /\ dq' = dq
      ELSE LET b == CHOOSE k \in full : \A y \in full : k[2] <= y[2]
           IN  /\ obsD'.last.ret # None
               /\ obsD'.last.ret = Oldest(obsD, {b})
               /\ DOMAIN dq' = DOMAIN dq
               /\ RemovedOne(dq[b], dq'[b], Oldest(obsD, {b})[2])
               /\ \A k \in DOMAIN dq \ {b} : dq'[k] = dq[k]

C6_PopLowestOldest ==
  [][PopStep => /\ UsesSimple => PopsLowestOldestS
                /\ UsesSimpler => PopsLowestOldestD]_vars

\* level 0 was filled and drained, the next pop skipped it and took the
\* older of the two items of level 10, in both classes
C6_Witness ==
  /\ impl = "Both"
  /\ obsD.added = <<<<Int_(0), "one">>, <<Int_(10), "three">>, <<Int_(10), "one">>>>
  /\ obsD.popped = <<<<Int_(0), "one">>, <<Int_(10), "three">>>>
  /\ obsS.popped = obsD.popped
  /\ Int_(0) \in DOMAIN dq
  /\ dq[Int_(0)] = <<>>
  /\ obsD.last.op = "pop"

----------------------------------------------------------------------------
(* C7: a pop on a queue that holds no item returns None, and a pop that    *)
(* directly follows an add call that returned normally returns an item.    *)

C7_EmptyUntilRefill ==
  [][PopStep =>
       /\ UsesSimple =>
            /\ HeldS = 0 => obsS'.last.ret = None
            /\ (obsS.last.op = "add" /\ obsS.last.out = "return")
                 => obsS'.last.ret # None
       /\ UsesSimpler =>
            /\ HeldD = 0 => obsD'.last.ret = None
            /\ (obsD.last.op = "add" /\ obsD.last.out = "return")
                 => obsD'.last.ret # None]_vars

----------------------------------------------------------------------------
(* C8: the concrete scenario.  When the demo script has added (7,one),     *)
(* (0,three), (0,five), (7,three), (9,one), (2,three) and has left its     *)
(* drain loop, the pops returned (0,three), (0,five), (2,three), (7,one),  *)
(* (7,three), (9,one) and then None; with (10,three) added as in the       *)
(* recorded run, that item is popped last.                                 *)

SixAdds == SubSeq(RecordedRun, 1, 1) \o SubSeq(RecordedRun, 3, 7)

SixDrain ==
  << <<Int_(0), "three">>, <<Int_(0), "five">>, <<Int_(2), "three">>,
     <<Int_(7), "one">>, <<Int_(7), "three">>, <<Int_(9), "one">> >>

ScriptObs == IF impl = "Simple" THEN obsS ELSE obsD

C8_ConcreteScenario ==
  pc = "done" =>
    /\ ScriptObs.added = SixAdds
         => (ScriptObs.popped = SixDrain /\ ScriptObs.last.ret = None)
    /\ ScriptObs.added = RecordedRun
         => /\ ScriptObs.popped = Append(SixDrain, <<Int_(10), "three">>)
            /\ ScriptObs.last.ret = None

C8_Witness ==
  /\ pc = "done"
  /\ impl = "Simpler"
  /\ obsD.added = SixAdds
  /\ Len(obsD.popped) = 6

----------------------------------------------------------------------------
(* C9: driven in lockstep, the two classes return the same value from      *)
(* every call, and every add is accepted by both or refused by both (an    *)
(* add is refused when it raises or prints the out-of-bounds warning).     *)

Accepted(e) == e.out = "return" /\ e.printed = "none"

C9_Equivalent ==
  impl = "Both" =>
    /\ obsS.last.ret = obsD.last.ret
    /\ Accepted(obsS.last) <=> Accepted(obsD.last)

----------------------------------------------------------------------------
(* C10: an add whose argument is not a dict of exactly one entry raises    *)
(* to the caller, prints nothing and leaves every bucket as it was, in     *)
(* both classes.                                                           *)

C10_MalformedRaises ==
  [][\A item \in MalformedItems :
       AddStep(item)
       => /\ UsesSimple =>
               /\ obsS'.last.out = "TypeError"
               /\ obsS'.last.printed = "none"
               /\ sq' = sq
          /\ UsesSimpler =>
               /\ obsD'.last.out = "TypeError"
               /\ obsD'.last.printed = "none"
               /\ dq' = dq]_vars

\* a two-entry dict was refused by both classes while they held an item
C10_Witness ==
  /\ impl = "Both"
  /\ obsS.last.op = "add"
  /\ Len(obsS.last.arg.entries) = 2
  /\ obsS.last.out = "TypeError"
  /\ obsD.last.out = "TypeError"
  /\ HeldS = 2
  /\ HeldD = 2

----------------------------------------------------------------------------
(* C11: a pop on a queue that holds no item returns None without raising   *)
(* and leaves the queue exactly as it was: every bucket of the list, and   *)
(* the keys and buckets of the dict.  Consecutive pops on an empty queue   *)
(* are all such steps.                                                     *)

C11_EmptyPopIsNoOp ==
  [][PopStep =>
       /\ (UsesSimple /\ HeldS = 0) =>
            /\ obsS'.last.ret = None
            /\ obsS'.last.out = "return"
            /\ sq' = sq
       /\ (UsesSimpler /\ HeldD = 0) =>
            /\ obsD'.last.ret = None
            /\ obsD'.last.out = "return"
            /\ dq' = dq]_vars

\* both queues were filled and drained, the dict still has its drained
\* keys, and the last pop returned None
C11_Witness ==
  /\ impl = "Both"
  /\ Len(obsD.popped) = 2
  /\ Len(obsS.popped) = 2
  /\ HeldS = 0
  /\ HeldD = 0
  /\ DOMAIN dq = {Int_(0), Int_(10)}
  /\ obsS.last.op = "pop"
  /\ obsS.last.ret = None
  /\ obsD.last.ret = None

----------------------------------------------------------------------------
(* C12: the per-level state machine.  An add changes the contents of at    *)
(* most one bucket (bucket p when its priority p is an int in 0..10) and   *)
(* can turn only that bucket from empty to non-empty; a pop changes the    *)
(* contents of at most one bucket and can turn only that bucket from       *)
(* non-empty to empty; no other level changes its status.  A level of the  *)
(* dict is empty when its key is absent or maps to an empty list.          *)

Levels == 0..(NumBuckets - 1)

FullS(q, i) == q[i] # <<>>
FullD(q, k) == k \in DOMAIN q /\ q[k] # <<>>

ChangedS == {i \in Levels : sq'[i] # sq[i]}
ChangedD ==
  {k \in DOMAIN dq \cup DOMAIN dq' :
     ~(k \in DOMAIN dq /\ k \in DOMAIN dq' /\ dq'[k] = dq[k])}

FilledS == {i \in Levels : ~FullS(sq, i) /\ FullS(sq', i)}
FilledD == {k \in DOMAIN dq \cup DOMAIN dq' : ~FullD(dq, k) /\ FullD(dq', k)}
EmptiedS == {i \in Levels : FullS(sq, i) /\ ~FullS(sq', i)}
EmptiedD == {k \in DOMAIN dq \cup DOMAIN dq' : FullD(dq, k) /\ ~FullD(dq', k)}

InRangeInt(item) ==
  /\ item.kind = "dict"
  /\ Len(item.entries) = 1
  /\ item.entries[1][1][1] = "int"
  /\ item.entries[1][1][2] \in Levels

C12_LevelStateMachine ==
  [][/\ LET item == CallArg' IN
          (item \in Items /\ AddStep(item)) =>
            /\ UsesSimple =>
                 /\ EmptiedS = {}
                 /\ Cardinality(ChangedS) <= 1
                 /\ InRangeInt(item) => ChangedS = {item.entries[1][1][2]}
            /\ UsesSimpler =>
                 /\ EmptiedD = {}
                 /\ Cardinality(ChangedD) <= 1
                 /\ InRangeInt(item) => ChangedD = {item.entries[1][1]}
     /\ PopStep =>
          /\ UsesSimple =>
               /\ FilledS = {}
               /\ Cardinality(ChangedS) <= 1
               /\ obsS'.last.ret = None => ChangedS = {}
          /\ UsesSimpler =>
               /\ FilledD = {}
               /\ Cardinality(ChangedD) <= 1
               /\ obsD'.last.ret = None => ChangedD = {}
               /\ obsD'.last.ret # None => ChangedD = {obsD'.last.ret[1]}]_vars

\* an add has filled level 0 and level 2, and the last pop has emptied
\* level 0 while level 2 stayed non-empty, in both classes
C12_Witness ==
  /\ impl = "Both"
  /\ obsD.last.op = "pop"
  /\ obsD.last.ret = <<Int_(0), "one">>
  /\ obsS.last.ret = <<Int_(0), "one">>
  /\ sq[0] = <<>>
  /\ sq[2] # <<>>
  /\ Int_(0) \in DOMAIN dq
  /\ dq[Int_(0)] = <<>>
  /\ Int_(2) \in DOMAIN dq
  /\ dq[Int_(2)] # <<>>

----------------------------------------------------------------------------
(* C13: the frame of add.  An accepted add of (p, payload) leaves every    *)
(* other bucket as it was, and the order in which a full drain returns the *)
(* items is the former order with the new item put in behind every item    *)
(* of priority p already queued.                                           *)

\* the items a full drain by repeated pop returns, in order
RECURSIVE DrainS(_)
DrainS(q) ==
  LET r == SimplePop(q)
  IN  IF r.ret = None THEN <<>> ELSE <<r.ret>> \o DrainS(r.q)

RECURSIVE DrainD(_)
DrainD(q) ==
  LET r == SimplerPop(q)
  IN  IF r.ret = None THEN <<>> ELSE <<r.ret>> \o DrainD(r.q)

\* after is before with e put in at some place behind every item of e's key
PutBehind(before, after, e) ==
  \E j \in 1..Len(after) :
    /\ after[j] = e
    /\ before = SubSeq(after, 1, j - 1) \o SubSeq(after, j + 1, Len(after))
    /\ \A i \in (j + 1)..Len(after) : after[i][1] # e[1]

----------------------------------------------------------------------------
(* C14: in the SimplePriorityQueue every tuple (priority, command) stored  *)
(* in bucket self.q[i] has priority equal to i (Python's ==, under which   *)
(* True equals 1).                                                         *)

C14_ItemsInOwnBucket ==
  \A i \in Levels : \A j \in 1..Len(sq[i]) : sq[i][j][1][2] = i

----------------------------------------------------------------------------
(* C15: an add on the SimplePriorityQueue whose one priority key is not an *)
(* integer (a str, a float) returns normally, prints the 'non-integer      *)
(* priority' message and adds nothing.  In SimpleAdd a list indexed by a   *)
(* str or a float raises TypeError, which neither handler of add catches:  *)
(* the handler that prints that message is for ValueError.                 *)

NonIntegerKey(item) ==
  /\ item.kind = "dict"
  /\ Len(item.entries) = 1
  /\ item.entries[1][1][1] \in {"str", "float"}

C15_NonIntegerSwallowed ==
  [][LET item == CallArg' IN
       (item \in Items /\ AddStep(item) /\ UsesSimple /\ NonIntegerKey(item))
       => /\ obsS'.last.out = "return"
          /\ obsS'.last.printed = "nonint"
          /\ sq' = sq]_vars

----------------------------------------------------------------------------
(* C16: the SimplerPriorityQueue raises, before changing self.q, on every  *)
(* one-entry add whose priority key is not exactly an int (a bool, a str,  *)
(* a float) or is not in 0..10; so the keys of self.q are always ints in   *)
(* 0..10 and a refused add leaves the queue as it was.                     *)

RefusedKey(item) ==
  /\ item.kind = "dict"
  /\ Len(item.entries) = 1
  /\ \/ item.entries[1][1][1] # "int"
     \/ ~(item.entries[1][1][2] \in Levels)

C16_SimplerKeysValid ==
  /\ [](DOMAIN dq \subseteq {Int_(v) : v \in Levels})
  /\ [][LET item == CallArg' IN
          (item \in Items /\ AddStep(item) /\ UsesSimpler /\ RefusedKey(item))
          => /\ obsD'.last.out = "TypeError"
             /\ dq' = dq]_vars

\* the dict queue held two items when it refused the key True
C16_Witness ==
  /\ UsesSimpler
  /\ obsD.last.op = "add"
  /\ obsD.last.arg = Dict(<<<<<<"bool", 1>>, "one">>>>)
  /\ obsD.last.out = "TypeError"
  /\ HeldD = 2

----------------------------------------------------------------------------
(* C17: buckets are never destroyed one by one.  The list of the           *)
(* SimplePriorityQueue always has its 11 buckets; a key of the dict of the *)
(* SimplerPriorityQueue stays a key in every later state, also when pop    *)
(* has emptied its list; and an accepted add at a key that is present puts *)
(* its command into the list already there, which keeps its other items.   *)

C17_BucketsPersist ==
  /\ [](DOMAIN sq = Levels /\ Cardinality(DOMAIN sq) = NumBuckets)
  /\ [][/\ DOMAIN dq \subseteq DOMAIN dq'
        /\ LET item == CallArg' IN
             (/\ item \in Items
              /\ AddStep(item)
              /\ UsesSimpler
              /\ Accepted(obsD'.last)
              /\ item.entries[1][1] \in DOMAIN dq)
             => /\ DOMAIN dq' = DOMAIN dq
                /\ RemovedOne(dq'[item.entries[1][1]], dq[item.entries[1][1]],
                              item.entries[1][2])]_vars

\* level 0 of the dict was created, drained to an empty list and then
\* used again by the last add, while level 2 stayed as a drained key
C17_Witness ==
  /\ UsesSimpler
  /\ obsD.popped = <<<<Int_(0), "one">>, <<Int_(2), "one">>>>
  /\ obsD.last.op = "add"
  /\ obsD.last.arg = Dict(<<<<Int_(0), "three">>>>)
  /\ DOMAIN dq = {Int_(0), Int_(2)}
  /\ dq[Int_(0)] = <<"three">>
  /\ dq[Int_(2)] = <<>>

----------------------------------------------------------------------------
(* C18: every bucket is kept in reverse arrival order.  Its list is, from  *)
(* index 0 on, the entries added to it and not yet popped, the most recent *)
(* first and the oldest last; and pop removes the element at the last      *)
(* index, which is the one it returns.                                     *)

Reverse(s) == [i \in 1..Len(s) |-> s[Len(s) + 1 - i]]

\* the entries with a key in K that were added and not yet popped, oldest first
Remaining(o, K) ==
  LET a == AtKeys(o.added, K)
  IN  SubSeq(a, Len(AtKeys(o.popped, K)) + 1, Len(a))

KeysIn(bucket) == {bucket[j][1] : j \in 1..Len(bucket)}

C18_ReverseArrivalOrder ==
  /\ [](/\ \A i \in Levels :
             sq[i] # <<>> => sq[i] = Reverse(Remaining(obsS, KeysIn(sq[i])))
        /\ \A k \in DOMAIN dq :
             [j \in 1..Len(dq[k]) |-> <<k, dq[k][j]>>] = Reverse(Remaining(obsD, {k})))
  /\ [][PopStep =>
          /\ \A i \in ChangedS :
               /\ sq'[i] = SubSeq(sq[i], 1, Len(sq[i]) - 1)
               /\ obsS'.last.ret = sq[i][Len(sq[i])]
          /\ \A k \in ChangedD :
               /\ dq'[k] = SubSeq(dq[k], 1, Len(dq[k]) - 1)
               /\ obsD'.last.ret = <<k, dq[k][Len(dq[k])]>>]_vars

\* after a pop at level 2, (0, one) and then (0, three) were added: the
\* later one is at index 0 of bucket 0, in both classes
C18_Witness ==
  /\ impl = "Both"
  /\ obsD.popped = <<<<Int_(2), "one">>>>
  /\ obsS.popped = obsD.popped
  /\ obsD.last.op = "add"
  /\ Int_(0) \in DOMAIN dq
  /\ dq[Int_(0)] = <<"three", "one">>
  /\ sq[0] = <<<<Int_(0), "three">>, <<Int_(0), "one">>>>

----------------------------------------------------------------------------
(* C19: the drain loop of the demo script terminates for every queue       *)
(* content, and when it has, its body has run once for each item that was  *)
(* in the queue: the items it visited are the items added, each once, and  *)
(* no item is left in the queue.                                           *)

ScriptHeld == IF impl = "Simple" THEN HeldS ELSE HeldD

C19_DrainLoopTerminates ==
  /\ [](pc = "done" =>
          /\ iter = Len(ScriptObs.added)
          /\ Len(ScriptObs.popped) = iter
          /\ SameBag(ScriptObs.popped, ScriptObs.added)
          /\ ScriptHeld = 0)
  /\ <>(pc = "done")

\* the script has left the loop after draining the seven items of the
\* recorded run, two of which have priority 0
C19_Witness ==
  /\ pc = "done"
  /\ impl = "Simpler"
  /\ obsD.added = RecordedRun
  /\ iter = 7

----------------------------------------------------------------------------
(* C20: the queue has no synchronisation of its own.  When every add and   *)
(* pop is made under the one lock of the callers, at most one thread is    *)
(* inside a call and, in every state, the items added are exactly the      *)
(* items popped together with the items held: none is lost or duplicated.  *)
(* Without the lock, two adds for the same new priority can interleave so  *)
(* that one item is lost: C20_Witness is such a state.                     *)

InCall == {t \in Threads : thr[t].pc # "idle"}

C20_LockedCallsConserve ==
  sync = "lock" =>
    /\ Cardinality(InCall) <= 1
    /\ Len(obsD.added) - Len(obsD.popped) = HeldD
    /\ SameBag(obsD.added, obsD.popped \o DrainD(dq))

\* no lock: both adds for the new priority 0 have returned, no pop was
\* made, and the queue holds one item only
C20_Witness ==
  /\ sync = "none"
  /\ InCall = {}
  /\ obsD.added = <<<<Int_(0), "one">>, <<Int_(0), "three">>>>
  /\ obsD.popped = <<>>
  /\ DrainD(dq) = <<<<Int_(0), "three">>>>


----------------------------------------------------------------------------
(* threading_7_sentinel.py: a producer hands BurstSize messages and then   *)
(* SENTINEL to a consumer through a Pipeline of one message and two locks. *)
(* Every statement that touches the Pipeline is one step.  Releasing a     *)
(* Lock that is not locked raises RuntimeError, which ends the thread      *)
(* (position "raised").                                                    *)

SentinelInit ==
  /\ PriorityQueueOff
  /\ QueueOff
  /\ BarrierOff
  /\ PoolOff
  /\ pipeline = PipelineInit
  /\ prod = ProducerInit
  /\ cons = ConsumerInit
  /\ log = LogInit
  /\ smain = "start_producer"

\* t_producer.start()
StartProducer ==
  /\ smain = "start_producer"
  /\ prod' = [prod EXCEPT !.pc = "loop"]
  /\ smain' = "start_consumer"
  /\ UNCHANGED <<pipeline, cons, log, notSentinel>>

\* t_consumer.start(), and the consumer's message = 0
StartConsumer ==
  /\ smain = "start_consumer"
  /\ cons' = [cons EXCEPT !.pc = "test", !.message = Int_(0)]
  /\ smain' = "join"
  /\ UNCHANGED <<pipeline, prod, log, notSentinel>>

Ended(thread) == thread.pc \in {"done", "raised"}

\* for thread in threads: thread.join()
JoinThreads ==
  /\ smain = "join"
  /\ Ended(prod)
  /\ Ended(cons)
  /\ smain' = "done"
  /\ UNCHANGED <<pipeline, prod, cons, log, notSentinel>>

\* for index in range(10): message = random.randint(1, 101), and the call
ProducerMessage(message) ==
  /\ prod.pc = "loop"
  /\ prod.index < BurstSize
  /\ prod' = [prod EXCEPT !.pc = "set_acquire", !.message = message]
  /\ UNCHANGED <<pipeline, cons, log, smain, notSentinel>>

\* after the loop: pipeline.set_message(SENTINEL, "Producer")
ProducerSentinel ==
  /\ prod.pc = "loop"
  /\ prod.index = BurstSize
  /\ prod' = [prod EXCEPT !.pc = "set_acquire", !.message = SENTINEL]
  /\ UNCHANGED <<pipeline, cons, log, smain, notSentinel>>

\* self.producer_lock.acquire()
SetAcquire ==
  /\ prod.pc = "set_acquire"
  /\ ~pipeline.producer_lock
  /\ pipeline' = [pipeline EXCEPT !.producer_lock = TRUE]
  /\ prod' = [prod EXCEPT !.pc = "set_write"]
  /\ UNCHANGED <<cons, log, smain, notSentinel>>

\* self.message = message
SetWrite ==
  /\ prod.pc = "set_write"
  /\ pipeline' = [pipeline EXCEPT !.message = prod.message]
  /\ log' = [log EXCEPT !.set = Append(@, prod.message)]
  /\ prod' = [prod EXCEPT !.pc = "set_release"]
  /\ UNCHANGED <<cons, smain, notSentinel>>

\* where the producer goes when set_message returns
AfterSet ==
  IF prod.message = SENTINEL
    THEN [prod EXCEPT !.pc = "done"]
    ELSE [prod EXCEPT !.pc = "loop", !.index = @ + 1]

\* self.consumer_lock.release(), and the return to producer
SetRelease ==
  /\ prod.pc = "set_release"
  /\ IF pipeline.consumer_lock
       THEN /\ pipeline' = [pipeline EXCEPT !.consumer_lock = FALSE]
            /\ prod' = AfterSet
       ELSE /\ prod' = [prod EXCEPT !.pc = "raised"]
            /\ UNCHANGED pipeline
  /\ UNCHANGED <<cons, log, smain, notSentinel>>

\* message is not SENTINEL
IsSentinelNever(message) == FALSE

IsSentinel(message) == message = SENTINEL

\* while message is not SENTINEL: ... pipeline.get_message("Consumer")
ConsumerTest ==
  /\ cons.pc = "test"
  /\ cons' = [cons EXCEPT !.pc = IF IsSentinel(cons.message)
                                   THEN "done" ELSE "get_acquire"]
  /\ UNCHANGED <<pipeline, prod, log, smain, notSentinel>>

\* self.consumer_lock.acquire()
GetAcquire ==
  /\ cons.pc = "get_acquire"
  /\ ~pipeline.consumer_lock
  /\ pipeline' = [pipeline EXCEPT !.consumer_lock = TRUE]
  /\ cons' = [cons EXCEPT !.pc = "get_copy"]
  /\ UNCHANGED <<prod, log, smain, notSentinel>>

\* message = self.message
GetCopy ==
  /\ cons.pc = "get_copy"
  /\ cons' = [cons EXCEPT !.pc = "get_release", !.local = pipeline.message]
  /\ UNCHANGED <<pipeline, prod, log, smain, notSentinel>>

\* self.producer_lock.release()
GetRelease ==
  /\ cons.pc = "get_release"
  /\ IF pipeline.producer_lock
       THEN /\ pipeline' = [pipeline EXCEPT !.producer_lock = FALSE]
            /\ cons' = [cons EXCEPT !.pc = "get_return"]
       ELSE /\ cons' = [cons EXCEPT !.pc = "raised"]
            /\ UNCHANGED pipeline
  /\ UNCHANGED <<prod, log, smain, notSentinel>>

\* return message, assigned to the consumer's message
GetReturn ==
  /\ cons.pc = "get_return"
  /\ cons' = [cons EXCEPT !.pc = "store", !.message = cons.local]
  /\ log' = [log EXCEPT !.get = Append(@, cons.local)]
  /\ UNCHANGED <<pipeline, prod, smain, notSentinel>>

\* if message is not SENTINEL: logging.info("Consumer storing message")
ConsumerStore ==
  /\ cons.pc = "store"
  /\ cons' = [cons EXCEPT !.pc = "test"]
  /\ log' = [log EXCEPT !.stored = IF IsSentinel(cons.message)
                                     THEN @ ELSE Append(@, cons.message)]
  /\ UNCHANGED <<pipeline, prod, smain, notSentinel>>

Producer ==
  \/ \E message \in Messages : ProducerMessage(message)
  \/ ProducerSentinel
  \/ SetAcquire
  \/ SetWrite
  \/ SetRelease

Consumer ==
  \/ ConsumerTest
  \/ GetAcquire
  \/ GetCopy
  \/ GetRelease
  \/ GetReturn
  \/ ConsumerStore

SentinelMain ==
  \/ StartProducer
  \/ StartConsumer
  \/ JoinThreads

SentinelNext ==
  \/ SentinelMain
  \/ Producer
  \/ Consumer

SentinelSpec == SentinelInit /\ [][SentinelNext]_vars

\* each thread that can take a step eventually takes one
SentinelFairSpec ==
  /\ SentinelSpec
  /\ WF_vars(SentinelMain)
  /\ WF_vars(Producer)
  /\ WF_vars(Consumer)


----------------------------------------------------------------------------
(* Properties of the sentinel pipeline *)

\* the producer holds producer_lock and is about to write self.message
AboutToWrite == prod.pc = "set_write"

\* the consumer has acquired consumer_lock and not yet copied self.message
AboutToCopy == cons.pc = "get_copy"

\* the step that assigns self.message
WriteStep == AboutToWrite /\ prod'.pc = "set_release"

\* a thread waits for a Lock that is locked
ProducerBlocked == prod.pc = "set_acquire" /\ pipeline.producer_lock

ConsumerBlocked == cons.pc = "get_acquire" /\ pipeline.consumer_lock

\* the consumer holds a copy of self.message that it has not yet returned
HoldsCopy == cons.pc \in {"get_release", "get_return"}

\* how many values the consumer has copied out of self.message
Copied == Len(log.get) + (IF HoldsCopy THEN 1 ELSE 0)

SentinelFinished == smain = "done" /\ prod.pc = "done" /\ cons.pc = "done"

\* C21: in every interleaving of the producer and the consumer thread the
\* values get_message returns are the values passed to set_message, in
\* order and each once: the returned values are always a prefix of the
\* values set, a copy the consumer holds is the next value set, at most
\* one value is set and not yet copied (none is overwritten before it is
\* read), all are returned when the threads have ended, and self.message
\* is never written while the consumer holds consumer_lock and has not yet
\* copied self.message.
C21_HandoffInOrder ==
  /\ [](/\ IsPrefix(log.get, log.set)
        /\ Copied <= Len(log.set)
        /\ (HoldsCopy => cons.local = log.set[Copied])
        /\ Len(log.set) - Copied <= 1
        /\ (Ended(prod) /\ Ended(cons) => log.get = log.set)
        /\ ~(AboutToWrite /\ AboutToCopy))
  /\ [][WriteStep => ~AboutToCopy]_vars

\* all eleven values were handed over, and the first two differ
C21_Witness ==
  /\ Len(log.get) = BurstSize + 1
  /\ log.get = log.set
  /\ log.get[1] # log.get[2]
  /\ log.get[BurstSize + 1] = SENTINEL

\* C22: under fair scheduling the producer (10 messages, then SENTINEL),
\* the consumer and main all run to completion; the consumer has then
\* stored exactly the 10 messages, in order, and left its loop on SENTINEL;
\* and in no reachable state are both threads blocked on a lock.
C22_SentinelTerminates ==
  /\ <>SentinelFinished
  /\ [](SentinelFinished =>
          /\ Len(log.stored) = BurstSize
          /\ log.stored = SubSeq(log.set, 1, BurstSize)
          /\ \A i \in 1..BurstSize : log.stored[i] \in Messages
          /\ cons.message = SENTINEL)
  /\ [](~(ProducerBlocked /\ ConsumerBlocked))
  /\ [](~Ended(prod) /\ ~Ended(cons) /\ prod.pc # "unstarted"
          /\ cons.pc # "unstarted" => ENABLED (Producer \/ Consumer))

\* the run has ended with ten messages stored, not all of them equal
C22_Witness ==
  /\ SentinelFinished
  /\ Len(log.stored) = BurstSize
  /\ log.stored[1] # log.stored[BurstSize]


----------------------------------------------------------------------------
(* threading_8_queue.py (and threading_9_concise.py, the same program      *)
(* without the Pipeline class): a producer puts messages into a Queue of   *)
(* maxsize 10 until the exit Event is set, a consumer gets them while the  *)
(* Event is not set or the Queue is not empty, and main sets the Event.    *)
(* Queue.put blocks while the Queue is full, Queue.get while it is empty;  *)
(* each test of the Event or of the Queue is a step of its own.            *)

QueueInit ==
  /\ PriorityQueueOff
  /\ SentinelOff
  /\ BarrierOff
  /\ PoolOff
  /\ queue = <<>>
  /\ event = FALSE
  /\ qprod = WorkerInit
  /\ qcons = WorkerInit
  /\ qmain = "start_producer"

\* t_producer.start()
QStartProducer ==
  /\ qmain = "start_producer"
  /\ qprod' = [qprod EXCEPT !.pc = "test"]
  /\ qmain' = "start_consumer"
  /\ UNCHANGED <<queue, event, qcons, notQueue>>

\* t_consumer.start()
QStartConsumer ==
  /\ qmain = "start_consumer"
  /\ qcons' = [qcons EXCEPT !.pc = "test_event"]
  /\ qmain' = "set"
  /\ UNCHANGED <<queue, event, qprod, notQueue>>

\* time.sleep(0.1); event.set()
SetEvent ==
  /\ qmain = "set"
  /\ event' = TRUE
  /\ qmain' = "join"
  /\ UNCHANGED <<queue, qprod, qcons, notQueue>>

\* for thread in threads: thread.join()
QJoinThreads ==
  /\ qmain = "join"
  /\ qprod.pc = "done"
  /\ qcons.pc = "done"
  /\ qmain' = "done"
  /\ UNCHANGED <<queue, event, qprod, qcons, notQueue>>

\* producer: while not event.is_set(): message = random.randint(1, 101)
ProducerTest ==
  /\ qprod.pc = "test"
  /\ IF event
       THEN qprod' = [qprod EXCEPT !.pc = "done"]
       ELSE \E message \in Messages :
              qprod' = [qprod EXCEPT !.pc = "put", !.message = message]
  /\ UNCHANGED <<queue, event, qcons, qmain, notQueue>>

\* pipeline.set_message(message, "Producer"): self.put(message)
ProducerPut ==
  /\ qprod.pc = "put"
  /\ Len(queue) < MaxSize
  /\ queue' = Append(queue, qprod.message)
  /\ qprod' = [qprod EXCEPT !.pc = "test"]
  /\ UNCHANGED <<event, qcons, qmain, notQueue>>

\* consumer: while not event.is_set() or ...
ConsumerTestEvent ==
  /\ qcons.pc = "test_event"
  /\ qcons' = [qcons EXCEPT !.pc = IF event THEN "test_empty" ELSE "get"]
  /\ UNCHANGED <<queue, event, qprod, qmain, notQueue>>

\* consumer: ... or not pipeline.empty()
ConsumerTestEmpty ==
  /\ qcons.pc = "test_empty"
  /\ qcons' = [qcons EXCEPT !.pc = IF queue = <<>> THEN "done" ELSE "get"]
  /\ UNCHANGED <<queue, event, qprod, qmain, notQueue>>

\* pipeline.get_message("Consumer"): message = self.get(), and the logging
ConsumerGet ==
  /\ qcons.pc = "get"
  /\ queue # <<>>
  /\ qcons' = [qcons EXCEPT !.pc = "test_event", !.message = Head(queue)]
  /\ queue' = Tail(queue)
  /\ UNCHANGED <<event, qprod, qmain, notQueue>>

QProducer ==
  \/ ProducerTest
  \/ ProducerPut

QConsumer ==
  \/ ConsumerTestEvent
  \/ ConsumerTestEmpty
  \/ ConsumerGet

QueueMain ==
  \/ QStartProducer
  \/ QStartConsumer
  \/ SetEvent
  \/ QJoinThreads

QueueNext ==
  \/ QueueMain
  \/ QProducer
  \/ QConsumer

QueueSpec == QueueInit /\ [][QueueNext]_vars

\* each thread that can take a step eventually takes one
QueueFairSpec ==
  /\ QueueSpec
  /\ WF_vars(QueueMain)
  /\ WF_vars(QProducer)
  /\ WF_vars(QConsumer)

----------------------------------------------------------------------------
(* Properties of the queue pipeline *)

QueueFinished == qprod.pc = "done" /\ qcons.pc = "done" /\ qmain = "done"

\* C23: under fair scheduling, once main has set the exit event the
\* producer leaves its loop, the consumer leaves its loop, and main's join
\* calls return: every state with the event set is followed by a state in
\* which both threads and main have ended.
C23_EventStopsThreads == event ~> QueueFinished

\* C24: every message the producer puts is taken by the consumer before it
\* exits (messages leave the queue only through the consumer's get, so the
\* queue is empty once both threads have ended), and the queue never holds
\* more than maxsize messages.
C24_NoMessageLost ==
  /\ Len(queue) <= MaxSize
  /\ (qprod.pc = "done" /\ qcons.pc = "done" => queue = <<>>)


----------------------------------------------------------------------------
(* threading_12_barrier.py: the class Barrier built from two semaphores,   *)
(* used by n threads that each call wait() once, as skate does.  main      *)
(* makes Barrier(n), starts the n threads one after the other and joins    *)
(* them.  A Semaphore is its counter: acquire waits while it is 0 and then *)
(* decrements it, release increments it.  Every statement of wait() is one *)
(* step; what skate does after wait() returns touches no Barrier state.    *)

BarrierSpecInit ==
  /\ PriorityQueueOff
  /\ SentinelOff
  /\ QueueOff
  /\ PoolOff
  /\ \E n \in Skaters : barrier = BarrierInit(n)
  /\ skater = NoSkaters
  /\ opened = {}
  /\ bmain = "start"

At(t, where) == skater[t] = where

Goto(t, where) == skater' = [skater EXCEPT ![t] = where]

\* threads[-1].start(), for i in range(len(PLAYERS)); skate calls wait()
StartSkater(t) ==
  /\ bmain = "start"
  /\ t <= barrier.n
  /\ At(t, "unstarted")
  /\ \A u \in 1..(t - 1) : ~At(u, "unstarted")
  /\ Goto(t, "lock_acquire")
  /\ bmain' = IF t = barrier.n THEN "join" ELSE "start"
  /\ UNCHANGED <<barrier, opened, notBarrier>>

\* for thread in threads: thread.join()
JoinSkaters ==
  /\ bmain = "join"
  /\ \A t \in 1..barrier.n : At(t, "done")
  /\ bmain' = "done"
  /\ UNCHANGED <<barrier, skater, opened, notBarrier>>

\* self.lock.acquire()
LockAcquire(t) ==
  /\ At(t, "lock_acquire")
  /\ barrier.lock > 0
  /\ barrier' = [barrier EXCEPT !.lock = @ - 1]
  /\ Goto(t, "increment")
  /\ UNCHANGED <<opened, bmain, notBarrier>>

\* self.count += 1
Increment(t) ==
  /\ At(t, "increment")
  /\ barrier' = [barrier EXCEPT !.count = @ + 1]
  /\ Goto(t, "lock_release")
  /\ UNCHANGED <<opened, bmain, notBarrier>>

\* self.lock.release()
LockRelease(t) ==
  /\ At(t, "lock_release")
  /\ barrier' = [barrier EXCEPT !.lock = @ + 1]
  /\ Goto(t, "test")
  /\ UNCHANGED <<opened, bmain, notBarrier>>

\* self.count >= 1
OpensEarly(b) == b.count >= 1

\* self.count == self.n
Opens(b) == b.count = b.n

\* if self.count == self.n:
TestCount(t) ==
  /\ At(t, "test")
  /\ Goto(t, IF Opens(barrier) THEN "open" ELSE "acquire")
  /\ UNCHANGED <<barrier, opened, bmain, notBarrier>>

\* self.barrier.release(), under the if
Open(t) ==
  /\ At(t, "open")
  /\ barrier' = [barrier EXCEPT !.barrier = @ + 1]
  /\ opened' = opened \cup {t}
  /\ Goto(t, "acquire")
  /\ UNCHANGED <<bmain, notBarrier>>

\* self.barrier.acquire()
BarrierAcquire(t) ==
  /\ At(t, "acquire")
  /\ barrier.barrier > 0
  /\ barrier' = [barrier EXCEPT !.barrier = @ - 1]
  /\ Goto(t, "release")
  /\ UNCHANGED <<opened, bmain, notBarrier>>

\* a wait() that leaves the semaphore as acquire left it
PassOnKept(b) == b

\* the semaphore after the last statement of wait()
PassOn(b) == [b EXCEPT !.barrier = @ + 1]

\* self.barrier.release(); wait() returns and skate runs to its end
BarrierRelease(t) ==
  /\ At(t, "release")
  /\ barrier' = PassOn(barrier)
  /\ Goto(t, "done")
  /\ UNCHANGED <<opened, bmain, notBarrier>>

Wait(t) ==
  \/ LockAcquire(t)
  \/ Increment(t)
  \/ LockRelease(t)
  \/ TestCount(t)
  \/ Open(t)
  \/ BarrierAcquire(t)
  \/ BarrierRelease(t)

BarrierMain ==
  \/ \E t \in Skaters : StartSkater(t)
  \/ JoinSkaters

BarrierNext ==
  \/ BarrierMain
  \/ \E t \in Skaters : Wait(t)

BarrierSpec == BarrierSpecInit /\ [][BarrierNext]_vars

\* each thread that can take a step eventually takes one
BarrierFairSpec ==
  /\ BarrierSpec
  /\ WF_vars(BarrierMain)
  /\ \A t \in Skaters : WF_vars(Wait(t))


----------------------------------------------------------------------------
(* Properties of the semaphore Barrier *)

Parties == 1..barrier.n

\* the thread has called wait()
Entered(t) == ~At(t, "unstarted")

\* the thread has run its self.count += 1
Counted(t) == skater[t] \notin {"unstarted", "lock_acquire", "increment"}

\* the thread has got through self.barrier.acquire()
Passed(t) == skater[t] \in {"release", "done"}

\* the thread has returned from wait()
Returned_(t) == At(t, "done")

AllEntered == \A t \in Parties : Entered(t)

AllReturned == \A t \in Parties : Returned_(t)

\* C25: for a Barrier(n) used by n threads, in every interleaving no
\* thread returns from wait() (nor even gets through the acquire of the
\* barrier semaphore) before all n threads have entered wait() and
\* incremented count.
C25_NoEarlyReturn ==
  \A t \in Parties :
    Passed(t) => /\ barrier.count = barrier.n
                 /\ \A u \in Parties : Entered(u) /\ Counted(u)

\* one of three threads has returned while another, which has counted, has
\* not yet tested count
C25_Witness ==
  /\ barrier.n = 3
  /\ \E t, u \in Parties : Returned_(t) /\ At(u, "test")

\* C26: for a Barrier(n), once all n threads have called wait(), every one
\* of them eventually returns from wait() under fair scheduling, so no
\* thread stays blocked on the barrier semaphore and main's joins return.
C26_AllReleased ==
  /\ AllEntered ~> AllReturned
  /\ \A t \in Skaters : (t \in Parties /\ At(t, "acquire")) ~> Returned_(t)
  /\ <>(bmain = "done")

\* all threads of the largest Barrier have returned and main has joined them
C26_Witness ==
  /\ barrier.n = MaxParties
  /\ AllReturned
  /\ bmain = "done"

\* C27 as stated: the release under 'if self.count == self.n' is run by
\* exactly one thread, so the barrier semaphore's counter is 1 after all n
\* threads have returned from wait().
C27_SingleOpening ==
  /\ Cardinality(opened) <= 1
  /\ (AllReturned => Cardinality(opened) = 1 /\ barrier.barrier = 1)

\* the threads that hold a unit of the barrier semaphore
Holding == {t \in Parties : At(t, "release")}

\* C27 amended: the release under 'if self.count == self.n' is run only
\* once count is n, by at least one and at most n threads (every thread
\* that reads count after the last increment); the semaphore's counter is
\* always the number of these releases less the threads between acquire
\* and release, so after all n threads have returned it is that number,
\* somewhere in 1..n.
C27_OpeningsCounted ==
  /\ opened \subseteq Parties
  /\ (opened # {} => barrier.count = barrier.n)
  /\ barrier.barrier = Cardinality(opened) - Cardinality(Holding)
  /\ (AllReturned =>
        /\ barrier.barrier = Cardinality(opened)
        /\ barrier.barrier \in 1..barrier.n)

\* all of three threads ran the release under 'if', and the counter ends
\* at 3
C27_Witness ==
  /\ barrier.n = 3
  /\ AllReturned
  /\ opened = Parties
  /\ barrier.barrier = 3


----------------------------------------------------------------------------
(* threading_10_semaphore.py: main starts the threads one after the other; *)
(* each runs f, which enters 'with semaphore', appends its name to         *)
(* pool.active under pool.lock, sleeps, removes its name under pool.lock   *)
(* and leaves the semaphore.  A thread's name is its number.  Acquiring,   *)
(* the statement under a lock, and releasing are steps of their own.       *)

PoolInit ==
  /\ PriorityQueueOff
  /\ SentinelOff
  /\ QueueOff
  /\ BarrierOff
  /\ pool = ThreadPoolInit
  /\ semaphore = MAX_THREADS
  /\ worker = NoWorkers
  /\ pmain = "start"

In(t, where) == worker[t] = where

Move(t, where) == worker' = [worker EXCEPT ![t] = where]

\* for i in range(10): t = threading.Thread(target=f, ...); t.start()
StartWorker(t) ==
  /\ pmain = "start"
  /\ In(t, "unstarted")
  /\ \A u \in 1..(t - 1) : ~In(u, "unstarted")
  /\ Move(t, "enter")
  /\ pmain' = IF t = MaxWorkers THEN "done" ELSE "start"
  /\ UNCHANGED <<pool, semaphore, notPool>>

\* a Semaphore that never makes acquire wait
AdmitsAll(s) == TRUE

\* Semaphore.acquire goes on when the counter is above 0
Admits(s) == s > 0

\* with semaphore: (acquire) and name = currentThread().getName()
Enter(t) ==
  /\ In(t, "enter")
  /\ Admits(semaphore)
  /\ semaphore' = semaphore - 1
  /\ Move(t, "active_lock")
  /\ UNCHANGED <<pool, pmain, notPool>>

\* with self.lock: of makeActive or makeInactive
PoolLock(t, from, to) ==
  /\ In(t, from)
  /\ ~pool.lock
  /\ pool' = [pool EXCEPT !.lock = TRUE]
  /\ Move(t, to)
  /\ UNCHANGED <<semaphore, pmain, notPool>>

\* the end of a 'with self.lock' block
PoolUnlock(t, from, to) ==
  /\ In(t, from)
  /\ pool' = [pool EXCEPT !.lock = FALSE]
  /\ Move(t, to)
  /\ UNCHANGED <<semaphore, pmain, notPool>>

\* self.active.append(name)
MakeActive(t) ==
  /\ In(t, "append")
  /\ pool' = [pool EXCEPT !.active = Append(@, t)]
  /\ Move(t, "active_unlock")
  /\ UNCHANGED <<semaphore, pmain, notPool>>

\* the positions of name in the list
Places(l, name) == {i \in 1..Len(l) : l[i] = name}

\* list.remove(name) that removes the last element instead
RemoveLast(l, name) == SubSeq(l, 1, Len(l) - 1)

\* list.remove(name): the list without the first element equal to name
Remove(l, name) ==
  LET i == CHOOSE i \in Places(l, name) : \A j \in Places(l, name) : i <= j
  IN  SubSeq(l, 1, i - 1) \o SubSeq(l, i + 1, Len(l))

\* self.active.remove(name), which raises ValueError for a name not there
MakeInactive(t) ==
  /\ In(t, "remove")
  /\ IF Places(pool.active, t) = {}
       THEN /\ Move(t, "raised")
            /\ UNCHANGED pool
       ELSE /\ pool' = [pool EXCEPT !.active = Remove(@, t)]
            /\ Move(t, "inactive_unlock")
  /\ UNCHANGED <<semaphore, pmain, notPool>>

\* the end of 'with semaphore' (release), and f returns
Leave(t) ==
  /\ In(t, "leave")
  /\ semaphore' = semaphore + 1
  /\ Move(t, "done")
  /\ UNCHANGED <<pool, pmain, notPool>>

\* f(semaphore, pool); time.sleep(0.5) is the time between two of its steps
F(t) ==
  \/ Enter(t)
  \/ PoolLock(t, "active_lock", "append")
  \/ MakeActive(t)
  \/ PoolUnlock(t, "active_unlock", "inactive_lock")
  \/ PoolLock(t, "inactive_lock", "remove")
  \/ MakeInactive(t)
  \/ PoolUnlock(t, "inactive_unlock", "leave")
  \/ Leave(t)

PoolMain == \E t \in Workers : StartWorker(t)

PoolNext ==
  \/ PoolMain
  \/ \E t \in Workers : F(t)

PoolSpec == PoolInit /\ [][PoolNext]_vars

\* each thread that can take a step eventually takes one
PoolFairSpec ==
  /\ PoolSpec
  /\ WF_vars(PoolMain)
  /\ \A t \in Workers : WF_vars(F(t))

----------------------------------------------------------------------------
(* Properties of the semaphore-limited pool *)

IsActive(t) == Places(pool.active, t) # {}

AllFinished == pmain = "done" /\ \A t \in Workers : In(t, "done")

\* C28: with the semaphore initialised to MAX_THREADS = 3, in every
\* reachable state pool.active holds at most 3 names and no name twice;
\* under fair scheduling every thread whose name is in pool.active
\* eventually has it removed, all threads finish, and pool.active is empty
\* (and the semaphore back at 3) when all threads have finished.
C28_PoolBounded ==
  /\ [](/\ Len(pool.active) <= MAX_THREADS
        /\ \A t \in Workers : Cardinality(Places(pool.active, t)) <= 1
        /\ (AllFinished => pool.active = <<>> /\ semaphore = MAX_THREADS))
  /\ \A t \in Workers : IsActive(t) ~> ~IsActive(t)
  /\ <>AllFinished

\* three threads are in the pool and a fourth waits for the semaphore
C28_Witness ==
  /\ Len(pool.active) = MAX_THREADS
  /\ semaphore = 0
  /\ \E t \in Workers : In(t, "enter")

====
